---- MODULE Spec2Model ----
(***************************************************************************)
(* The selection / fetch / render pipeline of the SMHI weather client:     *)
(* the App component (frontend/src/App.vue) with its asynchronous fetches  *)
(* and the TemperatureChart component (components/TemperatureChart.vue)    *)
(* that App's template mounts and unmounts; the CitySearch component       *)
(* (components/CitySearch.vue); and the chart configuration that           *)
(* TemperatureChart's createChart builds from its props.                   *)
(*                                                                         *)
(* JavaScript's null / undefined is the empty sequence Null, a present     *)
(* value v is Some(v).  A template string is the sequence of its parts,    *)
(* the empty string '' is the empty sequence.                              *)
(***************************************************************************)
EXTENDS Integers, Sequences, FiniteSets, TLC

\* How many requests the orchestrator dispatches in one run.
MaxFetches == 4

\* How many of them may be awaiting their response at the same time.
MaxInflight == 2

Null == <<>>
Some(v) == <<v>>
Val(o) == o[1]

VARIABLES
    phase,          \* "created" before App's onMounted hook has run, then "mounted"
    chartData,      \* App: ref chartData (Null or Some(payload))
    loading,        \* App: ref loading
    error,          \* App: ref error (a message; <<>> is '')
    selectedCity,   \* App: ref selectedCity (Null or Some(city))
    showHistorical, \* App: ref showHistorical
    showMonthly,    \* App: ref showMonthly
    inflight,       \* the axios requests awaiting their response
    nextId,         \* the number of the next request
    chartMounted,   \* whether the template shows <TemperatureChart>
    chart,          \* TemperatureChart: the variable `chart` of the mounted component
    liveCharts,     \* Chart instances constructed and not destroyed
    last,           \* the handler that ran last, with what it dispatched or settled
    searchTerm,     \* CitySearch: ref searchTerm (a sequence of characters)
    results,        \* CitySearch: ref results (Some(list of City), or Null)
    searchLoading,  \* CitySearch: ref loading
    searchError,    \* CitySearch: ref error
    searchInflight, \* CitySearch: the search request awaiting its response
    lastSearch,     \* CitySearch: the handler that ran last
    props,          \* TemperatureChart under composition: its props (data, title)
    chartConfig,    \* TemperatureChart under composition: the chartConfig built
    plain           \* the App variant without a period toggle, run side by side

appVars == <<phase, chartData, loading, error, selectedCity, showHistorical,
             showMonthly, inflight, nextId, chartMounted, chart, liveCharts, last>>

searchVars == <<searchTerm, results, searchLoading, searchError, searchInflight,
                lastSearch>>

composeVars == <<props, chartConfig>>

plainVars == <<plain>>

vars == <<appVars, searchVars, composeVars, plainVars>>

----------------------------------------------------------------------------
(* Inputs *)

\* MAJOR_CITIES (one of its five entries)
MAJOR_CITIES == [Stockholm |-> 97400]
MajorCityNames == DOMAIN MAJOR_CITIES

\* an absent (undefined) name; an absent station_id is 0
NoName == ""

\* A City as CitySearch emits it: a search result with its coordinates.
SearchCities ==
    { [id |-> 180940, name |-> "Kiruna", latitude |-> 67, longitude |-> 20,
       station_name |-> NoName, station_id |-> 0] }

\* selectMajorCity's object literal: {id, name} only
MajorCity(cityName) ==
    [id |-> MAJOR_CITIES[cityName], name |-> cityName,
     station_name |-> NoName, station_id |-> 0]

DataTypes == {"recent", "monthly", "historical"}

\* station_name / station_id a single-city payload may carry
Stations == { [station_name |-> NoName, station_id |-> 0],
              [station_name |-> "Station A", station_id |-> 1] }

\* err.response.data: a body that parses to null; a body without a detail (an
\* object lacking the field, text, or the empty body ''); a body with a detail
ErrorBodies == { Null, Some([detail |-> <<>>]),
                 Some([detail |-> <<"No station data for X">>]) }

----------------------------------------------------------------------------
(* App.vue *)

\* the active period, as the template and chartTitle read it from the two flags
Period ==
    IF showHistorical THEN "historical" ELSE IF showMonthly THEN "monthly" ELSE "recent"

\* (mutant) chartTitle without the monthly branch
ChartTitleNoMonthly(city, hist, monthly) ==
    IF city = Null THEN <<"Temperature Data for Major Swedish Cities">>
    ELSE <<"Temperature Data for ", Val(city).name>>
         \o (IF hist THEN <<" (Historical)">> ELSE <<" (Recent)">>)

\* computed chartTitle: a template string, kept as its parts
ChartTitle(city, hist, monthly) ==
    IF city = Null THEN <<"Temperature Data for Major Swedish Cities">>
    ELSE <<"Temperature Data for ", Val(city).name>>
         \o (IF hist THEN <<" (Historical)">>
             ELSE IF monthly THEN <<" (Monthly)">> ELSE <<" (Recent)">>)

\* (mutant) the handlers of the variant without a period toggle: always recent
CurrentDataTypeRecentOnly(hist, monthly) == "recent"

\* the dataType the selection handlers derive from the two flags
CurrentDataType(hist, monthly) ==
    IF hist THEN "historical" ELSE IF monthly THEN "monthly" ELSE "recent"

\* (mutant) the all-cities view fetched from the single-city path
AllCitiesEndpointCityPath == [path |-> "/api/graph/city/", cityName |-> NoName]

AllCitiesEndpoint == [path |-> "/api/graph/cities", cityName |-> NoName]

\* (mutant) the monthly branch missing: monthly falls through to the recent path
FetchCityEndpointNoMonthly(cityName, dataType) ==
    IF dataType = "historical"
    THEN [path |-> "/api/graph/historical/", cityName |-> cityName]
    ELSE [path |-> "/api/graph/city/", cityName |-> cityName]

FetchCityEndpoint(cityName, dataType) ==
    IF dataType = "historical"
    THEN [path |-> "/api/graph/historical/", cityName |-> cityName]
    ELSE IF dataType = "monthly"
         THEN [path |-> "/api/graph/monthly/", cityName |-> cityName]
         ELSE [path |-> "/api/graph/city/", cityName |-> cityName]

AllCitiesRequest(id) ==
    [id |-> id, fn |-> "fetchAllCitiesData", cityName |-> NoName,
     endpoint |-> AllCitiesEndpoint]

CityRequest(id, cityName, dataType) ==
    [id |-> id, fn |-> "fetchCityData", cityName |-> cityName,
     endpoint |-> FetchCityEndpoint(cityName, dataType)]

\* What axios.get can come back with for request r.  status 0: no response at
\* all (err.response undefined).
\* the period field the backend puts in the body of each endpoint: "monthly"
\* and "historical" on the two long-range paths, none on the others
EndpointPeriod(endpoint) ==
    IF endpoint.path = "/api/graph/historical/" THEN "historical"
    ELSE IF endpoint.path = "/api/graph/monthly/" THEN "monthly"
    ELSE NoName

Payload(r, st) ==
    [source |-> r.endpoint, station_name |-> st.station_name,
     station_id |-> st.station_id, period |-> EndpointPeriod(r.endpoint)]

Responses(r) ==
    { [kind |-> "ok", status |-> 200, data |-> Some(Payload(r, st))] :
        st \in IF r.fn = "fetchCityData" THEN Stations
               ELSE {[station_name |-> NoName, station_id |-> 0]} }
    \cup { [kind |-> "ok", status |-> 200, data |-> Null] }
    \cup { [kind |-> "http", status |-> 404, data |-> b] : b \in ErrorBodies }
    \cup { [kind |-> "http", status |-> 500, data |-> b] :
             b \in ErrorBodies \ {Null, Some([detail |-> <<>>])} }
    \cup { [kind |-> k, status |-> 0, data |-> Null] : k \in {"network", "timeout"} }

\* the v-if / v-else-if chain around <TemperatureChart>
TemplateShowsChart(isLoading, data) == ~isLoading /\ data # Null

\* TemperatureChart after the re-render that follows a handler of App:
\* mounting runs onMounted -> createChart; a new props.data on the mounted
\* component runs the watcher (destroy, then createChart); unmounting runs no
\* hook at all, so the instance the component held is not destroyed.
Rendered(wasMounted, hadChart, live, shows, dataAssigned) ==
    IF ~wasMounted /\ shows
    THEN [chartMounted |-> TRUE, chart |-> TRUE, liveCharts |-> live + 1]
    ELSE IF wasMounted /\ ~shows
    THEN [chartMounted |-> FALSE, chart |-> FALSE, liveCharts |-> live]
    ELSE IF wasMounted /\ shows /\ dataAssigned
    THEN [chartMounted |-> TRUE, chart |-> TRUE,
          liveCharts |-> IF hadChart THEN live ELSE live + 1]
    ELSE [chartMounted |-> wasMounted, chart |-> hadChart, liveCharts |-> live]

Render(dataAssigned) ==
    LET v == Rendered(chartMounted, chart, liveCharts,
                      TemplateShowsChart(loading', chartData'), dataAssigned)
    IN  /\ chartMounted' = v.chartMounted
        /\ chart' = v.chart
        /\ liveCharts' = v.liveCharts

\* user-facing messages
AllCitiesErrorMsg == <<"Failed to load temperature data. Please try again later.">>
FetchErrorMsg(cityName) == <<"Failed to load data for ", cityName, ". Please try again.">>
NotFoundMsg(cityName) == <<"No data found for ", cityName>>

\* The synchronous head of both fetch functions, up to the await.
Dispatch(req) ==
    /\ nextId <= MaxFetches
    /\ Cardinality(inflight) < MaxInflight
    /\ loading' = TRUE
    /\ error' = <<>>
    /\ inflight' = inflight \cup {req}
    /\ nextId' = nextId + 1

\* fetchAllCitiesData up to its await
FetchAllCitiesData(op) ==
    /\ Dispatch(AllCitiesRequest(nextId))
    /\ selectedCity' = Null
    /\ showHistorical' = FALSE
    /\ showMonthly' = FALSE
    /\ UNCHANGED chartData
    /\ Render(FALSE)
    /\ last' = [op |-> op, arg |-> "", req |-> Some(AllCitiesRequest(nextId)),
                resp |-> Null, threw |-> FALSE]

\* fetchCityData up to its await
FetchCityData(op, arg, cityName, dataType) ==
    /\ Dispatch(CityRequest(nextId, cityName, dataType))
    /\ UNCHANGED chartData
    /\ Render(FALSE)
    /\ last' = [op |-> op, arg |-> arg,
                req |-> Some(CityRequest(nextId, cityName, dataType)),
                resp |-> Null, threw |-> FALSE]

\* onMounted(() => fetchAllCitiesData())
Mount ==
    /\ phase = "created"
    /\ phase' = "mounted"
    /\ FetchAllCitiesData("onMounted")

HandleCitySelect(city) ==
    /\ phase = "mounted"
    /\ selectedCity' = Some(city)
    /\ UNCHANGED <<phase, showHistorical, showMonthly>>
    /\ FetchCityData("handleCitySelect", city.name, city.name,
                     CurrentDataType(showHistorical, showMonthly))

SelectMajorCity(cityName) ==
    /\ phase = "mounted"
    /\ selectedCity' = Some(MajorCity(cityName))
    /\ UNCHANGED <<phase, showHistorical, showMonthly>>
    /\ FetchCityData("selectMajorCity", cityName, cityName,
                     CurrentDataType(showHistorical, showMonthly))

\* (mutant) only the historical flag compared, as toggleHistorical once needed
ToggleChangedHistoricalOnly(wasHistorical, wasMonthly, hist, monthly) ==
    wasHistorical # hist

\* the comparison that decides whether toggleDataType fetches
ToggleChanged(wasHistorical, wasMonthly, hist, monthly) ==
    wasHistorical # hist \/ wasMonthly # monthly

ToggleDataType(dataType) ==
    LET hist == dataType = "historical"
        monthly == dataType = "monthly"
    IN  /\ phase = "mounted"
        /\ UNCHANGED <<phase, selectedCity>>
        /\ IF selectedCity # Null
           THEN /\ showHistorical' = hist
                /\ showMonthly' = monthly
                /\ IF ToggleChanged(showHistorical, showMonthly, hist, monthly)
                   THEN FetchCityData("toggleDataType", dataType,
                                      Val(selectedCity).name, dataType)
                   ELSE /\ UNCHANGED <<chartData, loading, error, inflight, nextId,
                                       chartMounted, chart, liveCharts>>
                        /\ last' = [op |-> "toggleDataType", arg |-> dataType,
                                    req |-> Null, resp |-> Null, threw |-> FALSE]
           ELSE /\ UNCHANGED <<showHistorical, showMonthly, chartData, loading, error,
                               inflight, nextId, chartMounted, chart, liveCharts>>
                /\ last' = [op |-> "toggleDataType", arg |-> dataType,
                            req |-> Null, resp |-> Null, threw |-> FALSE]

GoBackToAllCities ==
    /\ phase = "mounted"
    /\ UNCHANGED phase
    /\ FetchAllCitiesData("goBackToAllCities")

\* (mutant) a sequenced variant: a payload for a city other than the selected
\* one is dropped
FetchCityTrySequenced(r, resp, city, data) ==
    IF resp.data = Null
    THEN [chartData |-> Null, selectedCity |-> city, threw |-> TRUE]
    ELSE IF city = Null \/ Val(city).name # r.cityName
    THEN [chartData |-> data, selectedCity |-> city, threw |-> FALSE]
    ELSE [chartData |-> resp.data, selectedCity |-> city, threw |-> FALSE]

\* fetchCityData's try block after the await, for a 2xx response: the payload
\* is stored, and reading station_name of a null body raises a TypeError.
FetchCityTry(r, resp, city, data) ==
    IF resp.data = Null
    THEN [chartData |-> Null, selectedCity |-> city, threw |-> TRUE]
    ELSE [chartData |-> resp.data,
          selectedCity |->
              IF Val(resp.data).station_name # NoName /\ city # Null
              THEN Some([Val(city) EXCEPT
                            !.station_name = Val(resp.data).station_name,
                            !.station_id = Val(resp.data).station_id])
              ELSE city,
          threw |-> FALSE]

\* (mutant) the status test missing: the detail of any error response is shown
FetchCityCatchErrorAnyStatus(cityName, response, err) ==
    IF response # Null /\ Val(response).data # Null
                      /\ Val(Val(response).data).detail # <<>>
    THEN [error |-> Val(Val(response).data).detail, threw |-> FALSE]
    ELSE [error |-> FetchErrorMsg(cityName), threw |-> FALSE]

\* The message fetchCityData's catch block stores.  response is err.response
\* (Null for a failure without one); reading detail of a null body raises a
\* TypeError out of the catch block, before anything is stored.
FetchCityCatchError(cityName, response, err) ==
    IF response # Null
    THEN IF Val(response).status = 404
         THEN IF Val(response).data = Null
              THEN [error |-> err, threw |-> TRUE]
              ELSE [error |-> IF Val(Val(response).data).detail # <<>>
                              THEN Val(Val(response).data).detail
                              ELSE NotFoundMsg(cityName),
                    threw |-> FALSE]
         ELSE [error |-> FetchErrorMsg(cityName), threw |-> FALSE]
    ELSE [error |-> FetchErrorMsg(cityName), threw |-> FALSE]

\* fetchCityData's catch block: the message, then chartData.value = null
FetchCityCatch(cityName, response, city, data, err) ==
    LET e == FetchCityCatchError(cityName, response, err)
    IN  [chartData |-> IF e.threw THEN data ELSE Null,
         selectedCity |-> city,
         error |-> e.error,
         threw |-> e.threw,
         assigned |-> FALSE]

\* (mutant) loading reset after the catch block instead of in a finally block
LoadingAfterSettleNoFinally(wasLoading, threw) == IF threw THEN wasLoading ELSE FALSE

\* the finally block of both fetch functions
LoadingAfterSettle(wasLoading, threw) == FALSE

\* fetchCityData from the await to its end, for request r settled with resp
FetchCityDataSettled(r, resp, city, data, err) ==
    IF resp.kind = "ok"
    THEN LET t == FetchCityTry(r, resp, city, data)
         IN  IF t.threw
             THEN FetchCityCatch(r.cityName, Null, t.selectedCity, t.chartData, err)
             ELSE [chartData |-> t.chartData, selectedCity |-> t.selectedCity,
                   error |-> err, threw |-> FALSE, assigned |-> TRUE]
    ELSE FetchCityCatch(r.cityName,
                        IF resp.status = 0 THEN Null ELSE Some(resp),
                        city, data, err)

\* fetchAllCitiesData from the await to its end
FetchAllCitiesDataSettled(r, resp, city, data, err) ==
    IF resp.kind = "ok"
    THEN [chartData |-> resp.data, selectedCity |-> city, error |-> err,
          threw |-> FALSE, assigned |-> resp.data # Null]
    ELSE [chartData |-> data, selectedCity |-> city, error |-> AllCitiesErrorMsg,
          threw |-> FALSE, assigned |-> FALSE]

Settled(r, resp) ==
    IF r.fn = "fetchCityData"
    THEN FetchCityDataSettled(r, resp, selectedCity, chartData, error)
    ELSE FetchAllCitiesDataSettled(r, resp, selectedCity, chartData, error)

\* A request settles (in any order) and its fetch function runs to its end.
Settle(r, resp) ==
    LET s == Settled(r, resp)
    IN  /\ r \in inflight
        /\ inflight' = inflight \ {r}
        /\ chartData' = s.chartData
        /\ selectedCity' = s.selectedCity
        /\ error' = s.error
        /\ loading' = LoadingAfterSettle(loading, s.threw)
        /\ Render(s.assigned)
        /\ UNCHANGED <<phase, showHistorical, showMonthly, nextId>>
        /\ last' = [op |-> "settle", arg |-> r.cityName, req |-> Some(r),
                    resp |-> Some(resp), threw |-> s.threw]

SettleCity == \E r \in inflight : \E resp \in Responses(r) :
    r.fn = "fetchCityData" /\ Settle(r, resp)

SettleAllCities == \E r \in inflight : \E resp \in Responses(r) :
    r.fn = "fetchAllCitiesData" /\ Settle(r, resp)

AppInit ==
    /\ phase = "created"
    /\ chartData = Null
    /\ loading = TRUE
    /\ error = <<>>
    /\ selectedCity = Null
    /\ showHistorical = FALSE
    /\ showMonthly = FALSE
    /\ inflight = {}
    /\ nextId = 1
    /\ chartMounted = FALSE
    /\ chart = FALSE
    /\ liveCharts = 0
    /\ last = [op |-> "setup", arg |-> "", req |-> Null, resp |-> Null, threw |-> FALSE]

----------------------------------------------------------------------------
(* CitySearch.vue *)

SearchTerms == { <<>>, <<"s">>, <<"s", "t">>, <<"s", "t", "o">> }

\* (mutant) only the empty query rejected
TooShortEmptyOnly(term) == term = <<>>

\* !searchTerm.value || searchTerm.value.length < 2
TooShort(term) == term = <<>> \/ Len(term) < 2

ValidationMsg == <<"Please enter at least 2 characters">>
NoMatchMsg == <<"No matching cities found">>
SearchErrorMsg == <<"Error searching for cities. Please try again.">>

\* What the search request can come back with: a list (here empty or the one
\* city), a body that parses to null, an error status, no response at all.
SearchResponses ==
    { [kind |-> "ok", status |-> 200, data |-> Some(l)] :
        l \in {<<>>} \cup { <<c>> : c \in SearchCities } }
    \cup { [kind |-> "ok", status |-> 200, data |-> Null] }
    \cup { [kind |-> "http", status |-> st, data |-> Null] : st \in {404, 500} }
    \cup { [kind |-> "network", status |-> 0, data |-> Null] }

SearchInit ==
    /\ searchTerm = <<>>
    /\ results = Some(<<>>)
    /\ searchLoading = FALSE
    /\ searchError = <<>>
    /\ searchInflight = Null
    /\ lastSearch = [op |-> "setup", sent |-> FALSE, resp |-> Null]

\* v-model="searchTerm" (the input is disabled while a search is loading)
InputSearchTerm(term) ==
    /\ ~searchLoading
    /\ term # searchTerm
    /\ searchTerm' = term
    /\ lastSearch' = [op |-> "input", sent |-> FALSE, resp |-> Null]
    /\ UNCHANGED <<results, searchLoading, searchError, searchInflight>>

\* searchCity up to its await (input and button are disabled while loading)
SearchCity ==
    /\ ~searchLoading
    /\ IF TooShort(searchTerm)
       THEN /\ searchError' = ValidationMsg
            /\ lastSearch' = [op |-> "searchCity", sent |-> FALSE, resp |-> Null]
            /\ UNCHANGED <<searchLoading, searchInflight>>
       ELSE /\ searchLoading' = TRUE
            /\ searchError' = <<>>
            /\ searchInflight' = Some([term |-> searchTerm])
            /\ lastSearch' = [op |-> "searchCity", sent |-> TRUE, resp |-> Null]
    /\ UNCHANGED <<searchTerm, results>>

\* (mutant) an empty result list left without a message
SearchSettledSilentEmpty(resp, res) ==
    IF resp.kind = "ok"
    THEN IF resp.data = Null
         THEN [results |-> Null, error |-> SearchErrorMsg]
         ELSE [results |-> resp.data, error |-> <<>>]
    ELSE [results |-> res, error |-> SearchErrorMsg]

\* searchCity from its await to its end: reading length of a null body raises
\* a TypeError after results was assigned, and the catch block handles it.
SearchSettled(resp, res) ==
    IF resp.kind = "ok"
    THEN IF resp.data = Null
         THEN [results |-> Null, error |-> SearchErrorMsg]
         ELSE [results |-> resp.data,
               error |-> IF Len(Val(resp.data)) = 0 THEN NoMatchMsg ELSE <<>>]
    ELSE [results |-> res, error |-> SearchErrorMsg]

SettleSearch(resp) ==
    /\ searchInflight # Null
    /\ searchInflight' = Null
    /\ results' = SearchSettled(resp, results).results
    /\ searchError' = SearchSettled(resp, results).error
    /\ searchLoading' = FALSE
    /\ lastSearch' = [op |-> "settle", sent |-> FALSE, resp |-> Some(resp)]
    /\ UNCHANGED searchTerm

\* (mutant) selectCity that also clears the query text
SelectCityClearsQuery(city) ==
    /\ results # Null
    /\ \E i \in 1..Len(Val(results)) : Val(results)[i] = city
    /\ HandleCitySelect(city)
    /\ results' = Some(<<>>)
    /\ searchTerm' = <<>>
    /\ lastSearch' = [op |-> "selectCity", sent |-> FALSE, resp |-> Null]
    /\ UNCHANGED <<searchLoading, searchError, searchInflight>>

\* selectCity: emit('city-selected', city) runs App's handleCitySelect, then
\* the result list is emptied
SelectCity(city) ==
    /\ results # Null
    /\ \E i \in 1..Len(Val(results)) : Val(results)[i] = city
    /\ HandleCitySelect(city)
    /\ results' = Some(<<>>)
    /\ lastSearch' = [op |-> "selectCity", sent |-> FALSE, resp |-> Null]
    /\ UNCHANGED <<searchTerm, searchLoading, searchError, searchInflight>>

----------------------------------------------------------------------------
(* TemperatureChart.vue: createChart *)

\* bounds of the payloads createChart is applied to
MaxLen == 2
MaxCities == 2

CITY_COLORS ==
    "Stockholm" :> <<54, 162, 235>> @@ "Göteborg" :> <<255, 99, 132>>
    @@ "Malmö" :> <<75, 192, 192>> @@ "Uppsala" :> <<255, 159, 64>>
    @@ "Umeå" :> <<153, 102, 255>> @@ "Average" :> <<0, 0, 0>>

\* what Math.floor(Math.random() * 255) can give for the three channels: a
\* few of the 255^3 triples, one of them equal to a palette colour
RandomColors == { <<0, 0, 0>>, <<12, 200, 254>> }

\* one evaluation of getCityColor; draw is the colour the random branch
\* would produce
getCityColor(cityName, draw) ==
    IF cityName \in DOMAIN CITY_COLORS THEN CITY_COLORS[cityName] ELSE draw

\* temperatures are numbers in hundredths of a degree; Null is JSON null
Readings == { Null, Some(0), Some(-125) }

\* month labels: 1..n stands for n labels; the short lengths and the two
\* lengths around the tick threshold
MonthLens == 0..MaxLen \cup {30, 31}

Months(n) == [i \in 1..n |-> i]

TempSeqs(n) ==
    IF n <= MaxLen THEN [1..n -> Readings]
    ELSE { [i \in 1..n |-> IF i % 3 = 0 THEN Null ELSE Some(((i % 3) - 1) * (-125))] }

\* the series of one payload are rotations of one sequence, so that they
\* differ from one another
Rot(t, k) ==
    [i \in 1..Len(t) |-> t[((i - 1 + k) % Len(t)) + 1]]

ComposeNames == { "Stockholm", "Göteborg", "Kiruna" }

\* the entries of the cities mapping in Object.entries order
CityOrders ==
    { o \in UNION { [1..k -> ComposeNames] : k \in 0..MaxCities } :
        \A i, j \in 1..Len(o) : i # j => o[i] # o[j] }

TimeRanges == { Null, Some([start |-> "2015-01", end |-> "2024-12"]) }
PayloadPeriods == { NoName, "recent", "monthly", "historical" }

MultiCityPayloads ==
    { [cities |-> Some([i \in 1..Len(o) |->
                          [name |-> o[i], temperatures |-> Rot(t, i - 1)]]),
       city |-> NoName, temperatures |-> Null, station_name |-> NoName,
       average |-> IF hasAvg THEN Some(Rot(t, 1)) ELSE Null,
       months |-> Months(Len(t)), period |-> p, time_range |-> tr] :
        o \in CityOrders,
        t \in UNION { TempSeqs(n) : n \in MonthLens },
        hasAvg \in BOOLEAN,
        p \in PayloadPeriods, tr \in TimeRanges }

SingleCityPayloads ==
    { [cities |-> Null, city |-> c, temperatures |-> Some(t),
       station_name |-> IF st = "same" THEN c ELSE st, average |-> Null,
       months |-> Months(Len(t)), period |-> p, time_range |-> tr] :
        c \in ComposeNames,
        t \in UNION { TempSeqs(n) : n \in MonthLens },
        st \in { NoName, "same", "Station A" },
        p \in PayloadPeriods, tr \in TimeRanges }

ComposePayloads == MultiCityPayloads \cup SingleCityPayloads

\* the name each dataset's colour is looked up by: the key of the entry, and
\* props.data.city for a single city
SingleColorKeyByStation(data) ==
    IF data.station_name # NoName THEN data.station_name ELSE data.city

SingleColorKey(data) == data.city

ColorKeys(data) ==
    IF data.cities # Null
    THEN [i \in 1..Len(Val(data.cities)) |-> Val(data.cities)[i].name]
    ELSE IF data.temperatures # Null THEN <<SingleColorKey(data)>> ELSE <<>>

\* the datasets whose colour comes from Math.random
PaletteMisses(data) ==
    { i \in 1..Len(ColorKeys(data)) : ColorKeys(data)[i] \notin DOMAIN CITY_COLORS }

\* getCityColor is evaluated twice per dataset: one draw for borderColor and
\* one for backgroundColor
Draws(data) == [PaletteMisses(data) -> RandomColors \X RandomColors]

\* label of the single-city dataset: `${cityName} (${station_name})` when the
\* station name is there and differs
SingleCityLabel(data) ==
    IF data.station_name # NoName /\ data.station_name # data.city
    THEN <<data.city, " (", data.station_name, ")">>
    ELSE <<data.city>>

CityDataset(label, temperatures, key, draw) ==
    [label |-> label, data |-> temperatures,
     borderColor |-> getCityColor(key, draw[1]),
     backgroundColor |-> getCityColor(key, draw[2]),
     borderWidth |-> Null, tension |-> "0.3", pointRadius |-> 3]

\* when the key is in the palette no draw is read
DrawFor(rnd, i) == IF i \in DOMAIN rnd THEN rnd[i] ELSE <<Null, Null>>

CityDatasets(data, rnd) ==
    IF data.cities # Null
    THEN [i \in 1..Len(Val(data.cities)) |->
            CityDataset(<<Val(data.cities)[i].name>>,
                        Val(data.cities)[i].temperatures,
                        ColorKeys(data)[i], DrawFor(rnd, i))]
    ELSE IF data.temperatures # Null
    THEN << CityDataset(SingleCityLabel(data), Val(data.temperatures),
                        ColorKeys(data)[1], DrawFor(rnd, 1)) >>
    ELSE <<>>

AverageDataset(data) ==
    IF data.average # Null
    THEN << [label |-> <<"Average">>, data |-> Val(data.average),
             borderColor |-> CITY_COLORS["Average"],
             backgroundColor |-> CITY_COLORS["Average"],
             borderWidth |-> Some(3), tension |-> "0.3", pointRadius |-> 4] >>
    ELSE <<>>

\* (mutant) the average dataset pushed before the city datasets
DatasetsAverageFirst(data, rnd) == AverageDataset(data) \o CityDatasets(data, rnd)

Datasets(data, rnd) == CityDatasets(data, rnd) \o AverageDataset(data)

\* (mutant) the x-axis title without the monthly case
XAxisTitleNoMonthly(data) ==
    IF data.period = "historical" THEN "Year-Month" ELSE "Month"

\* scales.x.title.text
XAxisTitle(data) ==
    IF data.period = "historical" THEN "Year-Month"
    ELSE IF data.period = "monthly" THEN "Year-Month (Last 12 Months)"
    ELSE "Month"

\* (mutant) the block for monthly data missing
TitleTextHistoricalOnly(data, title) ==
    IF data.period = "historical" /\ data.time_range # Null
    THEN << title, <<"Data range: ", Val(data.time_range).start, " to ",
                     Val(data.time_range).end>> >>
    ELSE << title >>

\* plugins.title.text as the lines Chart.js draws: a string is one line, an
\* array one line per element
TitleText(data, title) ==
    IF data.period = "monthly" /\ data.time_range # Null
    THEN << title, <<"Monthly data from ", Val(data.time_range).start, " to ",
                     Val(data.time_range).end>> >>
    ELSE IF data.period = "historical" /\ data.time_range # Null
    THEN << title, <<"Data range: ", Val(data.time_range).start, " to ",
                     Val(data.time_range).end>> >>
    ELSE << title >>

\* scales.x.ticks: assigned only inside the block for historical data that
\* has a time_range
Ticks(data) ==
    IF data.period = "historical" /\ data.time_range # Null
       /\ Len(data.months) > 30
    THEN Some([maxTicksLimit |-> 20, maxRotation |-> 45, minRotation |-> 45])
    ELSE Null

\* the chartConfig handed to new Chart
createChart(data, title, rnd) ==
    [labels |-> data.months,
     datasets |-> Datasets(data, rnd),
     titleText |-> TitleText(data, title),
     yTitle |-> "Temperature (°C)",
     xTitle |-> XAxisTitle(data),
     ticks |-> Ticks(data)]

\* Number.prototype.toFixed(1) of v hundredths: rounded to tenths, half away
\* from zero, the sign kept
ToFixed1(v) ==
    LET a == IF v < 0 THEN -v ELSE v
        n == (a + 5) \div 10
    IN  <<IF v < 0 THEN "-" ELSE "", n \div 10, ".", n % 10>>

\* (mutant) the tooltip testing the value for truthiness
TooltipLabelTruthy(label, value) ==
    label \o <<": ">>
          \o (IF value # Null /\ Val(value) # 0
              THEN ToFixed1(Val(value)) \o <<"°C">> ELSE <<"No data">>)

\* tooltip label callback; value is context.parsed.y, null for a null point
TooltipLabel(label, value) ==
    label \o <<": ">>
          \o (IF value # Null
              THEN ToFixed1(Val(value)) \o <<"°C">> ELSE <<"No data">>)

\* props.title as App passes it
ComposeTitles ==
    { ChartTitle(Null, FALSE, FALSE),
      ChartTitle(Some([name |-> "Kiruna"]), TRUE, FALSE) }

ComposeInit ==
    /\ props \in { Some([data |-> d, title |-> t]) :
                     d \in ComposePayloads, t \in ComposeTitles }
    /\ chartConfig = Null

\* onMounted: createChart with the props the component was given
OnMounted ==
    /\ props # Null
    /\ chartConfig = Null
    /\ \E rnd \in Draws(Val(props).data) :
         chartConfig' = Some(createChart(Val(props).data, Val(props).title, rnd))
    /\ UNCHANGED props

\* watch(() => props.data): the parent hands over another payload; the chart
\* is destroyed and createChart runs again
WatchData(data) ==
    /\ props # Null
    /\ chartConfig # Null
    /\ data # Val(props).data
    /\ props' = Some([Val(props) EXCEPT !.data = data])
    /\ \E rnd \in Draws(data) :
         chartConfig' = Some(createChart(data, Val(props).title, rnd))

\* the payloads the watcher is run with: the same series under another period
OtherPeriods(data) == { [data EXCEPT !.period = p] : p \in PayloadPeriods }

----------------------------------------------------------------------------
(* The App variant without a period toggle (src/unnamed/part_002) *)

\* its refs, its requests awaiting a response, and the endpoint it asked last
PlainInit ==
    plain = [chartData |-> Null, loading |-> TRUE, error |-> <<>>,
             selectedCity |-> Null, inflight |-> {}, nextId |-> 1,
             endpoint |-> Null]

\* `${window.location.origin}/api/graph/cities`: the same-origin path
PlainAllCitiesEndpoint == [path |-> "/api/graph/cities", cityName |-> NoName]

\* `${window.location.origin}/api/graph/city/${cityName}`
PlainCityEndpoint(cityName) == [path |-> "/api/graph/city/", cityName |-> cityName]

\* fetchAllCitiesData up to its await
PlainFetchAllCitiesData(p) ==
    [p EXCEPT !.loading = TRUE, !.error = <<>>, !.selectedCity = Null,
              !.inflight = @ \cup { [id |-> p.nextId, fn |-> "fetchAllCitiesData",
                                     cityName |-> NoName,
                                     endpoint |-> PlainAllCitiesEndpoint] },
              !.nextId = @ + 1,
              !.endpoint = Some(PlainAllCitiesEndpoint)]

\* fetchCityData up to its await
PlainFetchCityData(p, cityName) ==
    [p EXCEPT !.loading = TRUE, !.error = <<>>,
              !.inflight = @ \cup { [id |-> p.nextId, fn |-> "fetchCityData",
                                     cityName |-> cityName,
                                     endpoint |-> PlainCityEndpoint(cityName)] },
              !.nextId = @ + 1,
              !.endpoint = Some(PlainCityEndpoint(cityName))]

PlainHandleCitySelect(p, city) ==
    PlainFetchCityData([p EXCEPT !.selectedCity = Some(city)], city.name)

PlainSelectMajorCity(p, cityName) ==
    PlainFetchCityData([p EXCEPT !.selectedCity = Some(MajorCity(cityName))], cityName)

PlainGoBackToAllCities(p) ==
    PlainFetchAllCitiesData([p EXCEPT !.selectedCity = Null])

\* either fetch function from its await to its end: the body is stored as it
\* is; a failure stores the message, and fetchCityData then clears the chart
PlainSettled(p, q, resp) ==
    LET done == [p EXCEPT !.inflight = @ \ {q}, !.loading = FALSE]
    IN  IF resp.kind = "ok"
        THEN [done EXCEPT !.chartData = resp.data]
        ELSE IF q.fn = "fetchCityData"
        THEN [done EXCEPT !.error = FetchErrorMsg(q.cityName), !.chartData = Null]
        ELSE [done EXCEPT !.error = AllCitiesErrorMsg]

\* the two variants given the same user action, and the same response to the
\* request of the same number
PairSettle(r, resp) ==
    /\ Settle(r, resp)
    /\ \E q \in plain.inflight :
          q.id = r.id /\ plain' = PlainSettled(plain, q, resp)

PairMount == Mount /\ plain' = PlainFetchAllCitiesData(plain)

PairHandleCitySelect(city) ==
    HandleCitySelect(city) /\ plain' = PlainHandleCitySelect(plain, city)

PairSelectMajorCity(cityName) ==
    SelectMajorCity(cityName) /\ plain' = PlainSelectMajorCity(plain, cityName)

PairGoBackToAllCities ==
    GoBackToAllCities /\ plain' = PlainGoBackToAllCities(plain)

PairSettleCity == \E r \in inflight : \E resp \in Responses(r) :
    r.fn = "fetchCityData" /\ PairSettle(r, resp)

PairSettleAllCities == \E r \in inflight : \E resp \in Responses(r) :
    r.fn = "fetchAllCitiesData" /\ PairSettle(r, resp)

----------------------------------------------------------------------------
(* Specifications *)

ComposeIdle == props = Null /\ chartConfig = Null

Init == AppInit /\ SearchInit /\ ComposeIdle /\ PlainInit

\* the orchestrator, its selections taken from every City the search can emit
Next ==
    \/ Mount /\ UNCHANGED <<searchVars, composeVars, plainVars>>
    \/ (\E city \in SearchCities : HandleCitySelect(city))
          /\ UNCHANGED <<searchVars, composeVars, plainVars>>
    \/ (\E cityName \in MajorCityNames : SelectMajorCity(cityName))
          /\ UNCHANGED <<searchVars, composeVars, plainVars>>
    \/ (\E dataType \in DataTypes : ToggleDataType(dataType))
          /\ UNCHANGED <<searchVars, composeVars, plainVars>>
    \/ GoBackToAllCities /\ UNCHANGED <<searchVars, composeVars, plainVars>>
    \/ SettleCity /\ UNCHANGED <<searchVars, composeVars, plainVars>>
    \/ SettleAllCities /\ UNCHANGED <<searchVars, composeVars, plainVars>>

Spec == Init /\ [][Next]_vars

\* the search component with the orchestrator it emits its selections to
\* The run of finitely many user actions: the handlers of Next, the user's
\* ones taken only while fewer than MaxLiveFetches requests were dispatched.
MaxLiveFetches == 3

UserActs == nextId <= MaxLiveFetches

LiveMount == Mount /\ UNCHANGED <<searchVars, composeVars, plainVars>>
LiveSettleCity == SettleCity /\ UNCHANGED <<searchVars, composeVars, plainVars>>
LiveSettleAllCities == SettleAllCities /\ UNCHANGED <<searchVars, composeVars, plainVars>>

LiveNext ==
    \/ LiveMount
    \/ (UserActs /\ \E city \in SearchCities : HandleCitySelect(city))
          /\ UNCHANGED <<searchVars, composeVars, plainVars>>
    \/ (UserActs /\ \E cityName \in MajorCityNames : SelectMajorCity(cityName))
          /\ UNCHANGED <<searchVars, composeVars, plainVars>>
    \/ (UserActs /\ \E dataType \in DataTypes : ToggleDataType(dataType))
          /\ UNCHANGED <<searchVars, composeVars, plainVars>>
    \/ (UserActs /\ GoBackToAllCities) /\ UNCHANGED <<searchVars, composeVars, plainVars>>
    \/ LiveSettleCity
    \/ LiveSettleAllCities

\* every request settles: axios resolves, rejects, or gives up at its timeout
\* (main.js, 30000 ms); onMounted runs once the component is mounted
Fairness ==
    WF_vars(LiveMount) /\ WF_vars(LiveSettleCity) /\ WF_vars(LiveSettleAllCities)

SpecLive == Init /\ [][LiveNext]_vars /\ Fairness

\* both variants side by side, toggleDataType never used
PairNext ==
    \/ PairMount /\ UNCHANGED <<searchVars, composeVars>>
    \/ (\E city \in SearchCities : PairHandleCitySelect(city))
          /\ UNCHANGED <<searchVars, composeVars>>
    \/ (\E cityName \in MajorCityNames : PairSelectMajorCity(cityName))
          /\ UNCHANGED <<searchVars, composeVars>>
    \/ PairGoBackToAllCities /\ UNCHANGED <<searchVars, composeVars>>
    \/ PairSettleCity /\ UNCHANGED <<searchVars, composeVars>>
    \/ PairSettleAllCities /\ UNCHANGED <<searchVars, composeVars>>

SpecVariants == Init /\ [][PairNext]_vars

SearchNext ==
    \/ Mount /\ UNCHANGED <<searchVars, composeVars, plainVars>>
    \/ SettleCity /\ UNCHANGED <<searchVars, composeVars, plainVars>>
    \/ SettleAllCities /\ UNCHANGED <<searchVars, composeVars, plainVars>>
    \/ (\E term \in SearchTerms : InputSearchTerm(term))
          /\ UNCHANGED <<appVars, composeVars, plainVars>>
    \/ SearchCity /\ UNCHANGED <<appVars, composeVars, plainVars>>
    \/ (\E resp \in SearchResponses : SettleSearch(resp))
          /\ UNCHANGED <<appVars, composeVars, plainVars>>
    \/ (\E city \in SearchCities : SelectCity(city)) /\ UNCHANGED <<composeVars, plainVars>>

SpecSearch == Init /\ [][SearchNext]_vars

ComposeNext ==
    \/ OnMounted /\ UNCHANGED <<appVars, searchVars, plainVars>>
    \/ (\E data \in OtherPeriods(Val(props).data) : WatchData(data))
          /\ UNCHANGED <<appVars, searchVars, plainVars>>

InitCompose == AppInit /\ SearchInit /\ ComposeInit /\ PlainInit

SpecCompose == InitCompose /\ [][ComposeNext]_vars

----------------------------------------------------------------------------
(* Properties *)

\* what the last handler dispatched (dispatch handlers) or settled ("settle")
LastIsDispatch == last.op # "settle" /\ last.req # Null
LastIsSettle == last.op = "settle"
LastReq == Val(last.req)
LastResp == Val(last.resp)
\* the settled fetch failed: axios rejected (non-2xx status or no response)
LastFailed == LastIsSettle /\ LastResp.kind # "ok"

\* C1: once a fetch has settled in failure (all-cities or city fetch, any
\* failure kind), chartData is none and the error message is non-empty.
C1_FailedFetchClearsChart ==
    LastFailed => (chartData = Null /\ error # <<>>)

\* C2: fetches are neither cancelled nor sequenced: whichever request settles
\* with a payload, and whatever is selected by then, chartData becomes that
\* payload; the witness is the stale overwrite A-after-B.
C2_SettledPayloadIsStored ==
    (LastIsSettle /\ LastResp.kind = "ok" /\ LastResp.data # Null)
        => chartData = LastResp.data

\* no fetch in flight, a city B selected, the chart holding the payload of an
\* earlier request for another city A, which settled last
C2_StaleOverwriteReached ==
    /\ inflight = {}
    /\ LastIsSettle
    /\ LastReq.id < nextId - 1
    /\ LastReq.cityName = "Stockholm"
    /\ LastResp.kind = "ok"
    /\ chartData = LastResp.data
    /\ selectedCity # Null
    /\ Val(selectedCity).name = "Kiruna"
    /\ chartData # Null
    /\ Val(chartData).source = [path |-> "/api/graph/city/", cityName |-> "Stockholm"]

\* C3: at most one chart instance is constructed and not yet destroyed.
C3_AtMostOneLiveChart == liveCharts <= 1

\* the endpoint table of the REST contract, by (selectedCity, period)
EndpointFor(city, p) ==
    IF city = Null THEN [path |-> "/api/graph/cities", cityName |-> NoName]
    ELSE IF p = "recent" THEN [path |-> "/api/graph/city/", cityName |-> Val(city).name]
    ELSE IF p = "monthly" THEN [path |-> "/api/graph/monthly/", cityName |-> Val(city).name]
    ELSE [path |-> "/api/graph/historical/", cityName |-> Val(city).name]

\* this step dispatched exactly one request, and it is for (city, p)
DispatchedOneFor(city, p) ==
    /\ nextId' = nextId + 1
    /\ \E r \in inflight' :
          /\ inflight' = inflight \cup {r}
          /\ r \notin inflight
          /\ r.endpoint = EndpointFor(city, p)

\* a step of the handler op (every dispatch and every settle changes last or
\* nextId; a repeated no-op toggle changes nothing at all)
StepOf(op) == last'.op = op /\ (last' # last \/ nextId' # nextId)

\* C4: setPeriod(p) changes nothing and dispatches nothing when no city is
\* selected or p is the current period; otherwise it sets period = p and
\* dispatches exactly one fetch for (selectedCity, p).
C4_SetPeriod ==
    [][ \A p \in DataTypes :
          (last'.op = "toggleDataType" /\ last'.arg = p) =>
             IF selectedCity = Null \/ p = Period
             THEN UNCHANGED <<selectedCity, showHistorical, showMonthly, loading,
                              error, chartData, inflight, nextId>>
             ELSE /\ Period' = p
                  /\ selectedCity' = selectedCity
                  /\ DispatchedOneFor(selectedCity, p) ]_vars

\* a toggle to the period already active, with a city selected, after an
\* earlier toggle to monthly had dispatched its fetch
C4_NoOpToggleReached ==
    /\ last.op = "toggleDataType"
    /\ last.req = Null
    /\ selectedCity # Null
    /\ last.arg = "monthly"
    /\ Period = "monthly"
    /\ \E r \in inflight : r.endpoint.path = "/api/graph/monthly/"

\* C5: select(city), from a search result or a major-city shortcut, sets
\* selectedCity = city, keeps the period and dispatches exactly one fetch for
\* (city, period).
C5_Select ==
    [][ /\ \A city \in SearchCities :
             (StepOf("handleCitySelect") /\ last'.arg = city.name) =>
                 /\ selectedCity' = Some(city)
                 /\ Period' = Period
                 /\ DispatchedOneFor(Some(city), Period)
        /\ \A cityName \in MajorCityNames :
             (StepOf("selectMajorCity") /\ last'.arg = cityName) =>
                 /\ selectedCity' # Null
                 /\ Val(selectedCity').name = cityName
                 /\ Val(selectedCity').id = MAJOR_CITIES[cityName]
                 /\ Period' = Period
                 /\ DispatchedOneFor(selectedCity', Period) ]_vars

\* a search result selected while the period is historical
C5_SelectKeepsPeriodReached ==
    /\ last.op = "handleCitySelect"
    /\ Period = "historical"
    /\ selectedCity \in { Some(c) : c \in SearchCities }
    /\ LastReq.endpoint.path = "/api/graph/historical/"
    /\ LastReq \in inflight

\* C6: reset() ends with selectedCity = none, period = recent and the
\* all-cities fetch dispatched; the program starts with selectedCity = none and
\* period = recent, and its first step dispatches the all-cities fetch.
C6_Reset ==
    /\ phase = "created" =>
          (selectedCity = Null /\ Period = "recent" /\ inflight = {} /\ nextId = 1)
    /\ phase = "mounted" => nextId > 1
    /\ last.op \in {"onMounted", "goBackToAllCities"} =>
          /\ selectedCity = Null
          /\ Period = "recent"
          /\ last.req # Null
          /\ LastReq \in inflight
          /\ LastReq.id = nextId - 1
          /\ LastReq.endpoint = [path |-> "/api/graph/cities", cityName |-> NoName]

\* reset from a state with a city selected in monthly mode, whose fetch is
\* still in flight
C6_ResetFromCityReached ==
    /\ last.op = "goBackToAllCities"
    /\ \E r \in inflight : r.endpoint.path = "/api/graph/monthly/" /\ r.id = nextId - 2

\* C7: every dispatched fetch targets the endpoint that the (selectedCity,
\* period) pair of the dispatching handler determines.
C7_EndpointBySelection ==
    LastIsDispatch =>
        /\ LastReq.endpoint = EndpointFor(selectedCity, Period)
        /\ LastReq \in inflight

\* recent -> historical for the same city: with the recent chart of Stockholm
\* in place, the toggle requests /graph/historical/Stockholm
C7_ToggleToHistoricalReached ==
    /\ last.op = "toggleDataType"
    /\ last.arg = "historical"
    /\ last.req # Null
    /\ LastReq.endpoint = [path |-> "/api/graph/historical/", cityName |-> "Stockholm"]
    /\ chartData # Null
    /\ Val(chartData).source = [path |-> "/api/graph/city/", cityName |-> "Stockholm"]

\* C8: loading is true once a fetch is dispatched and false once a request has
\* settled, whatever the outcome.
C8_LoadingFlag ==
    /\ LastIsDispatch => loading = TRUE
    /\ LastIsSettle => loading = FALSE

\* a settle whose catch block itself raised, with another request in flight
C8_SettleThrewReached ==
    LastIsSettle /\ last.threw /\ ~loading /\ inflight # {}

\* the message the claim of C9 expects for a 404
NotFoundExpected(r, resp) ==
    IF resp.data # Null /\ Val(resp.data).detail # <<>>
    THEN Val(resp.data).detail
    ELSE <<"No data found for ", r.cityName>>

\* C9: after a fetch failed with HTTP 404 the error is the backend's detail if
\* the body carries one, else "No data found for <city>"; the chart is cleared
\* and loading is false.
C9_NotFoundMessage ==
    (LastIsSettle /\ LastResp.status = 404) =>
        /\ error = NotFoundExpected(LastReq, LastResp)
        /\ chartData = Null
        /\ loading = FALSE

\* C10: after a failure other than HTTP 404 the error is the fixed message of
\* the fetch function, whatever the status and the body of the response.
C10_GenericMessage ==
    (LastFailed /\ LastResp.status # 404) =>
        error = IF LastReq.fn = "fetchCityData"
                THEN <<"Failed to load data for ", LastReq.cityName, ". Please try again.">>
                ELSE <<"Failed to load temperature data. Please try again later.">>

\* a city fetch answered 500 with a detail in its body
C10_ServerErrorWithDetailReached ==
    /\ LastFailed
    /\ LastReq.fn = "fetchCityData"
    /\ LastResp.status = 500
    /\ LastResp.data # Null
    /\ error # <<>>

\* the settled fetch produced a failure: axios rejected, or the try block of
\* fetchCityData raised on a null body
LastProducedFailure ==
    LastIsSettle /\ (LastResp.kind # "ok"
                     \/ (LastReq.fn = "fetchCityData" /\ LastResp.data = Null))

\* C11: every failure of a fetch, for every response shape (a null body
\* included), is caught and turned into a message: the handler ends normally
\* with error set, and no exception escapes it.
C11_FailuresBecomeMessages ==
    LastProducedFailure => (~last.threw /\ error # <<>>)

\* C12: a search with a query shorter than 2 characters ends with the
\* validation message and without a request.
C12_ShortQueryRejected ==
    (lastSearch.op = "searchCity" /\ Len(searchTerm) < 2) =>
        /\ searchError = <<"Please enter at least 2 characters">>
        /\ ~lastSearch.sent
        /\ searchInflight = Null
        /\ ~searchLoading

\* a one-character query rejected while the results of an earlier search are
\* still listed
C12_OneCharRejectedReached ==
    /\ lastSearch.op = "searchCity"
    /\ Len(searchTerm) = 1
    /\ searchError # <<>>
    /\ results # Null
    /\ Len(Val(results)) > 0

\* C13: the completion of a fetch leaves selectedCity, with every field of
\* the City, and the period as they were.
C13_SettleKeepsSelection ==
    [][ (last'.op = "settle" /\ inflight' # inflight) =>
            (selectedCity' = selectedCity /\ Period' = Period) ]_vars

\* the chart the component holds and the payload it was composed from
Cfg == Val(chartConfig)
Data == Val(props).data
Composed == props # Null /\ chartConfig # Null

\* C14: a multi-city payload gives one dataset per key of cities, in the
\* mapping's order, and one more iff average is present: labelled Average,
\* drawn heavier, and last.
C14_DatasetsPerCityThenAverage ==
    (Composed /\ Data.cities # Null) =>
        LET entries == Val(Data.cities)
            ds == Cfg.datasets
            n == Len(entries)
        IN  /\ Len(ds) = n + (IF Data.average # Null THEN 1 ELSE 0)
            /\ \A i \in 1..n : /\ ds[i].label = <<entries[i].name>>
                               /\ ds[i].borderWidth = Null
                               /\ ds[i].pointRadius = 3
            /\ Data.average # Null =>
                 /\ ds[Len(ds)].label = <<"Average">>
                 /\ ds[Len(ds)].borderWidth = Some(3)
                 /\ ds[Len(ds)].pointRadius = 4

\* two cities and an average composed: three datasets
C14_TwoCitiesAndAverageReached ==
    /\ Composed
    /\ Data.cities # Null
    /\ Len(Val(Data.cities)) = 2
    /\ Data.average # Null
    /\ Len(Cfg.datasets) = 3

\* C15: for a historical payload the chart has the tick policy {maxTicks 20,
\* rotation 45} when there are more than 30 months and none otherwise,
\* whether or not time_range is present.
C15_TickPolicyByLength ==
    (Composed /\ Data.period = "historical") =>
        IF Len(Data.months) > 30
        THEN Cfg.ticks = Some([maxTicksLimit |-> 20, maxRotation |-> 45,
                               minRotation |-> 45])
        ELSE Cfg.ticks = Null

\* the temperature sequence of the payload behind dataset k
SeriesOf(data, k) ==
    IF data.cities # Null /\ k <= Len(Val(data.cities))
    THEN Val(data.cities)[k].temperatures
    ELSE IF data.cities = Null /\ data.temperatures # Null /\ k = 1
    THEN Val(data.temperatures)
    ELSE Val(data.average)

\* C16: every dataset's points are the payload's temperature sequence of
\* that series, as long as months and in order, a missing reading kept in
\* place; the tooltip says "No data" for a missing point and gives a
\* temperature for a zero reading.
C16_PointsAreTheReadings ==
    Composed =>
        \A k \in 1..Len(Cfg.datasets) :
            LET d == Cfg.datasets[k]
            IN  /\ Len(d.data) = Len(Cfg.labels)
                /\ \A i \in 1..Len(d.data) :
                     /\ d.data[i] = SeriesOf(Data, k)[i]
                     /\ (d.data[i] = Null) <=>
                          (TooltipLabel(d.label, d.data[i])
                             = d.label \o <<": ", "No data">>)
                     /\ d.data[i] = Some(0) =>
                          TooltipLabel(d.label, d.data[i])
                             = d.label \o <<": ", "", 0, ".", 0, "°C">>

\* a dataset composed that holds a missing reading next to a zero reading
C16_NullBesideZeroReached ==
    /\ Composed
    /\ \E k \in 1..Len(Cfg.datasets) :
         \E i, j \in 1..Len(Cfg.datasets[k].data) :
            /\ Cfg.datasets[k].data[i] = Null
            /\ Cfg.datasets[k].data[j] = Some(0)

\* the palette of the six names
PaletteNames == { "Stockholm", "Göteborg", "Malmö", "Uppsala", "Umeå", "Average" }

\* the name of the series behind dataset k: the key of the entry, the city of
\* a single-city payload, Average for the average
SeriesName(data, k) ==
    IF data.cities # Null /\ k <= Len(Val(data.cities))
    THEN Val(data.cities)[k].name
    ELSE IF data.cities = Null /\ data.temperatures # Null /\ k = 1
    THEN data.city
    ELSE "Average"

\* C17: each of the six names gets its fixed palette colour on every call, in
\* single-city and multi-city charts alike, a single city with an augmented
\* label included.
C17_FixedPaletteColors ==
    /\ \A name \in PaletteNames, draw \in RandomColors :
         getCityColor(name, draw) = CITY_COLORS[name]
    /\ Composed =>
         \A k \in 1..Len(Cfg.datasets) :
            SeriesName(Data, k) \in PaletteNames =>
                /\ Cfg.datasets[k].borderColor = CITY_COLORS[SeriesName(Data, k)]
                /\ Cfg.datasets[k].backgroundColor = CITY_COLORS[SeriesName(Data, k)]

\* Stockholm composed alone with the label "Stockholm (Station A)"
C17_AugmentedLabelReached ==
    /\ Composed
    /\ Data.cities = Null
    /\ Data.city = "Stockholm"
    /\ Cfg.datasets[1].label = <<"Stockholm", " (", "Station A", ")">>
    /\ Cfg.datasets[1].borderColor = <<54, 162, 235>>

\* the x-axis label that goes with a period
PeriodAxisLabel(p) ==
    CASE p = "recent" -> "Month"
      [] p = "monthly" -> "Year-Month (Last 12 Months)"
      [] p = "historical" -> "Year-Month"

\* the chart on screen was composed from chartData: mounting and the watcher
\* both run createChart with the current props.data
ChartOnScreen == chartMounted /\ chart /\ chartData # Null

\* C18 (as stated): the x-axis label of the chart is the one of the active
\* period of the selection.
C18_XAxisByActivePeriod ==
    ChartOnScreen => XAxisTitle(Val(chartData)) = PeriodAxisLabel(Period)

\* C18 (amended): the x-axis label of the chart is the one of the period
\* field of the payload it shows, "Month" when the payload has none.
C18_XAxisByPayloadPeriod ==
    ChartOnScreen =>
        XAxisTitle(Val(chartData)) =
            PeriodAxisLabel(IF Val(chartData).period = NoName THEN "recent"
                            ELSE Val(chartData).period)

\* a chart of monthly data on screen
C18_MonthlyChartReached ==
    /\ ChartOnScreen
    /\ Val(chartData).period = "monthly"
    /\ Period = "monthly"
    /\ XAxisTitle(Val(chartData)) = "Year-Month (Last 12 Months)"

\* C19: the title is one line for recent payloads and for payloads without
\* time_range; for monthly and historical payloads with time_range it is two
\* lines, the second stating start and end.
C19_TitleLines ==
    Composed =>
        LET tt == Cfg.titleText
        IN  IF Data.period \in {"monthly", "historical"} /\ Data.time_range # Null
            THEN /\ Len(tt) = 2
                 /\ tt[1] = Val(props).title
                 /\ \E i, j \in 1..Len(tt[2]) :
                      /\ i < j
                      /\ tt[2][i] = Val(Data.time_range).start
                      /\ tt[2][j] = Val(Data.time_range).end
            ELSE tt = << Val(props).title >>

\* a monthly payload with time_range composed under a two-line title
C19_MonthlyTwoLinesReached ==
    /\ Composed
    /\ Data.period = "monthly"
    /\ Data.time_range # Null
    /\ Len(Cfg.titleText) = 2

\* the suffix that goes with a period
PeriodSuffix(p) ==
    CASE p = "recent" -> " (Recent)"
      [] p = "monthly" -> " (Monthly)"
      [] p = "historical" -> " (Historical)"

\* C20: the title is the all-cities title when no city is selected, else
\* "Temperature Data for <name>" with the suffix of the active period,
\* whatever chartData, loading and error are.
C20_TitleBySelection ==
    ChartTitle(selectedCity, showHistorical, showMonthly) =
        IF selectedCity = Null
        THEN <<"Temperature Data for Major Swedish Cities">>
        ELSE <<"Temperature Data for ", Val(selectedCity).name, PeriodSuffix(Period)>>

\* Kiruna selected under the monthly period while its fetch is in flight
C20_MonthlyTitleWhileLoadingReached ==
    /\ selectedCity # Null
    /\ Val(selectedCity).name = "Kiruna"
    /\ Period = "monthly"
    /\ loading
    /\ ChartTitle(selectedCity, showHistorical, showMonthly)
         = <<"Temperature Data for ", "Kiruna", " (Monthly)">>

\* C21: selecting a search candidate empties the result list, emits one
\* selection event carrying that City (App takes it as selectedCity and
\* dispatches one fetch for it), and leaves the query text as it was.
C21_SelectEmptiesListKeepsQuery ==
    [][ (lastSearch'.op = "selectCity" /\ lastSearch.op # "selectCity") =>
            /\ results' = Some(<<>>)
            /\ searchTerm' = searchTerm
            /\ results # Null
            /\ \E i \in 1..Len(Val(results)) :
                  /\ selectedCity' = Some(Val(results)[i])
                  /\ last'.op = "handleCitySelect"
                  /\ last'.arg = Val(results)[i].name
            /\ nextId' = nextId + 1 ]_vars

\* Kiruna selected from the results of the search "sto"
C21_CandidateSelectedReached ==
    /\ lastSearch.op = "selectCity"
    /\ searchTerm = <<"s", "t", "o">>
    /\ results = Some(<<>>)
    /\ selectedCity # Null
    /\ Val(selectedCity).name = "Kiruna"
    /\ last.op = "handleCitySelect"

\* C22: a search, whether rejected, accepted, failed or empty, leaves
\* selectedCity, the period, chartData, loading and error of App alone and
\* dispatches no graph fetch; an accepted search without matches ends with
\* an empty result list and "No matching cities found".
C22_SearchLeavesAppAlone ==
    [][ (lastSearch' # lastSearch /\ lastSearch'.op \in {"searchCity", "settle"}) =>
            /\ UNCHANGED <<selectedCity, showHistorical, showMonthly, chartData,
                           loading, error, inflight, nextId>>
            /\ (lastSearch'.op = "settle"
                 /\ Val(lastSearch'.resp).kind = "ok"
                 /\ Val(lastSearch'.resp).data = Some(<<>>)) =>
                    /\ results' = Some(<<>>)
                    /\ searchError' = <<"No matching cities found">> ]_vars

\* the search "sto" came back empty while a chart is on screen
C22_NoMatchBesideChartReached ==
    /\ lastSearch.op = "settle"
    /\ Val(lastSearch.resp).kind = "ok"
    /\ Val(lastSearch.resp).data = Some(<<>>)
    /\ searchTerm = <<"s", "t", "o">>
    /\ searchError = <<"No matching cities found">>
    /\ chartData # Null
    /\ ~loading

\* C23: whenever a fetch of App is still in flight, loading is true.
C23_LoadingWhileInflight ==
    inflight # {} => loading

\* C24: with every dispatched request settling in the end and finitely many
\* user actions, loading = true leads to loading = false, and loading is
\* false whenever every fetch dispatched so far has settled.
C24_LoadingEnds ==
    /\ loading ~> ~loading
    /\ [](( phase = "mounted" /\ inflight = {} ) => ~loading)

\* all the fetches the bound allows were dispatched and have settled, the
\* last of them by an exception that left its handler
C24_AllSettledReached ==
    /\ nextId = MaxLiveFetches + 1
    /\ inflight = {}
    /\ ~loading
    /\ last.op = "settle"
    /\ last.threw

\* C25: whenever no fetch is in flight and the fetch that settled last
\* succeeded, error is empty.
C25_SuccessShowsNoError ==
    (inflight = {} /\ LastIsSettle /\ ~LastProducedFailure) => error = <<>>

\* C26: station_name and station_id are written into the selected city only
\* by a response to a request for that same city.
C26_StationFromOwnCity ==
    [][ (last'.op = "settle" /\ inflight' # inflight
         /\ selectedCity # Null /\ selectedCity' # Null
         /\ << Val(selectedCity').station_name, Val(selectedCity').station_id >>
               # << Val(selectedCity).station_name, Val(selectedCity).station_id >>)
        => Val(last'.req).cityName = Val(selectedCity').name ]_vars

\* C27: with toggleDataType never used, the variant with the period toggle
\* and the variant without it dispatch the same request endpoints and pass
\* through the same selectedCity, chartData and loading, for every sequence
\* of selections and resets, every response and every completion order.
C27_VariantsAgree ==
    /\ plain.selectedCity = selectedCity
    /\ plain.chartData = chartData
    /\ plain.loading = loading
    /\ last.op \notin {"setup", "settle"} =>
          plain.endpoint = Some(Val(last.req).endpoint)

TypeOK ==
    /\ phase \in {"created", "mounted"}
    /\ loading \in BOOLEAN
    /\ showHistorical \in BOOLEAN /\ showMonthly \in BOOLEAN
    /\ ~(showHistorical /\ showMonthly)
    /\ nextId \in 1..(MaxFetches + 1)
    /\ chartMounted = TemplateShowsChart(loading, chartData)
    /\ chart = chartMounted

====
